---- MODULE Spec2Model ----
(***************************************************************************)
(* budget_api: the database tables declared in api_service/models.py, the  *)
(* balance methods of Wallet and User, and the request handlers of         *)
(* api_service/views.py that write or read those tables.                   *)
(*                                                                         *)
(* Decimals are fixed-point integers in the unit of their column:          *)
(*   Wallet.initial_balance, Wallet.current_balance   1e-8  (decimal_places=8)  *)
(*   Transaction.amount                               1e-2  (decimal_places=2)  *)
(*   Currency.value_in_usd                            1e-3  (decimal_places=3)  *)
(* A wallet balance is in 1e-8 units, a USD figure in 1e-11 units.         *)
(***************************************************************************)
EXTENDS Integers, FiniteSets, Sequences, TLC

VARIABLES users, currencies, wallets, categories, transactions,
          nextUserId, nextWalletId, nextCategoryId, nextTransactionId,
          passwords, tokens, response, reader, moments

vars == <<users, currencies, wallets, categories, transactions,
          nextUserId, nextWalletId, nextCategoryId, nextTransactionId,
          passwords, tokens, response, reader, moments>>

store == <<users, currencies, wallets, categories, transactions>>

(* ------------------------------ bounds -------------------------------- *)
MaxUsers == 2
NumCurrencies == 2
MaxWallets == 2
MaxCategories == 2
MaxTransactions == 2
MaxAmount == 2
MaxInitialBalance == 1
\* rows inserted in a run, all tables together
MaxRows == 6
MaxPasswords == 2

(* ------------------------- program constants -------------------------- *)
\* 10^(8-2): one unit of Transaction.amount in units of Wallet.initial_balance
AmountScale == 1000000

TYPE_CHOICES == {"INCOME", "EXPENSE"}

Amounts == 1..MaxAmount
\* the amounts a client may send: DecimalField(max_digits=10,
\* decimal_places=2) parses negative numbers and zero as well
MinAmountInput == -1
AmountInputs == MinAmountInput..MaxAmount
InitialBalances == 0..MaxInitialBalance
\* the seeded rate of currency c, in 1e-3 USD
SeedRate(c) == c + 1

(* --------------------------- table helpers ---------------------------- *)
\* the rows inserted so far: primary keys are handed out in sequence and
\* never reused
RowsInserted ==
    (nextUserId - 1) + (nextWalletId - 1) + (nextCategoryId - 1)
      + (nextTransactionId - 1)

\* INSERT / UPDATE of the row with primary key k
Put(table, k, row) ==
    [j \in (DOMAIN table) \cup {k} |-> IF j = k THEN row ELSE table[j]]

\* DELETE of the rows whose primary key is in S
Remove(table, S) == [j \in (DOMAIN table) \ S |-> table[j]]

\* the last HTTP response: its status, the table and primary key of the row it
\* serializes or has deleted, and the serialized figures (the amount of a
\* transaction, the USD total of a user, both balances of a wallet)
Resp(status, kind, id, value, value_in_usd) ==
    [status |-> status, kind |-> kind, id |-> id,
     value |-> value, value_in_usd |-> value_in_usd]

\* a response whose body is an error message, or empty
Status(status) == Resp(status, "none", 0, 0, 0)

\* no request was answered: the rows were written through the ORM
NoResponse == Status(0)

\* the 404 of get_object_or_404 for the row pk of a table: no field of any
\* row is in the body
NotFound(kind, pk) == Resp(404, kind, pk, 0, 0)

\* django.db.models.RestrictedError raised by the delete of currency c
RestrictedError(c) == Resp(0, "currency", c, 0, 0)

(* ------------------------ balance computation ------------------------- *)
\* Transaction.objects.filter(wallet=w, category__type=ty)
FilterTransactions(w, ty) ==
    {t \in DOMAIN transactions :
        /\ transactions[t].wallet = w
        /\ categories[transactions[t].category].type = ty}

RECURSIVE SumAmount(_)
\* Sum('amount') over a non-empty queryset (a set of primary keys)
SumAmount(qs) ==
    IF qs = {} THEN 0
    ELSE LET t == CHOOSE x \in qs : TRUE
         IN  transactions[t].amount + SumAmount(qs \ {t})

\* .aggregate(total=Sum('amount'))['total']: None (<<>>) on an empty queryset
AggregateTotal(qs) == IF qs = {} THEN <<>> ELSE <<SumAmount(qs)>>

\* `total or Decimal('0.00')`: None and a zero total are both falsy
OrZero(total) == IF total = <<>> \/ total[1] = 0 THEN 0 ELSE total[1]

\* mutant: the income query without its wallet filter
income_all_wallets(w) ==
    OrZero(AggregateTotal({t \in DOMAIN transactions :
                             categories[transactions[t].category].type = "INCOME"}))

\* models.py:77
income(w) == OrZero(AggregateTotal(FilterTransactions(w, "INCOME")))

\* models.py:79 (the filter is category__type='INCOME' here as well)
expenses(w) == OrZero(AggregateTotal(FilterTransactions(w, "INCOME")))

\* mutant: the balance starts from the stored current_balance column
get_total_balance_from_current(w) ==
    wallets[w].current_balance + income(w) * AmountScale - expenses(w) * AmountScale

\* Wallet.get_total_balance, in 1e-8 units
get_total_balance(w) ==
    wallets[w].initial_balance + income(w) * AmountScale - expenses(w) * AmountScale

\* mutant: the stored current_balance column is converted, not the
\* computed balance
get_wallet_balance_in_usd_stored(w) ==
    wallets[w].current_balance * currencies[wallets[w].currency].value_in_usd

\* Wallet.get_wallet_balance_in_usd, in 1e-11 units
get_wallet_balance_in_usd(w) ==
    get_total_balance(w) * currencies[wallets[w].currency].value_in_usd

\* mutant: the commented-out filter dropped, Wallet.objects.all()
FilterWallets_all(u) == DOMAIN wallets

\* Wallet.objects.filter(user=u)
FilterWallets(u) == {w \in DOMAIN wallets : wallets[w].user = u}

RECURSIVE TotalLoop(_, _)
\* the for loop of User.get_total_wallets_balance_in_usd over the queryset,
\* in primary-key order, adding to the running total
TotalLoop(qs, total_value_in_usd) ==
    IF qs = {} THEN total_value_in_usd
    ELSE LET cur == CHOOSE x \in qs : \A y \in qs : x <= y
             total_balance == get_total_balance(cur)
         IN  TotalLoop(qs \ {cur},
                       total_value_in_usd
                         + total_balance * currencies[wallets[cur].currency].value_in_usd)

\* User.get_total_wallets_balance_in_usd
get_total_wallets_balance_in_usd(u) == TotalLoop(FilterWallets(u), 0)

(* ------------------- a get_total_balance() call in flight ------------- *)
\* `reader` holds the locals of the one call of Wallet.get_total_balance that
\* runs beside the requests: where it stands, the wallet instance `self` (its
\* primary key and the initial_balance loaded with it), the income it has
\* queried and the value it has returned.  `moments` is its history: the
\* values the method has if it is evaluated at once, in each state of the
\* store since the call began.
Idle == [pc |-> "idle", self |-> 0, initial_balance |-> 0, income |-> 0,
         result |-> 0]

\* the step of a request beside the call: the locals of the call are left
\* alone, and the new state of the store is one more moment of the call
Observe ==
    /\ reader' = reader
    /\ moments' = IF reader.pc \in {"income", "expenses"}
                  THEN moments \cup {get_total_balance(w)' :
                                        w \in {x \in DOMAIN wallets' : x = reader.self}}
                  ELSE moments

(* ------------------------------- Init --------------------------------- *)
\* an empty database with the currency table seeded
Init ==
    /\ users = {}
    /\ currencies = [c \in 1..NumCurrencies |-> [value_in_usd |-> SeedRate(c)]]
    /\ wallets = <<>>
    /\ categories = <<>>
    /\ transactions = <<>>
    /\ nextUserId = 1
    /\ nextWalletId = 1
    /\ nextCategoryId = 1
    /\ nextTransactionId = 1
    /\ passwords = <<>>
    /\ tokens = {}
    /\ response = NoResponse
    /\ reader = Idle
    /\ moments = {}

(* ------------------- on_delete rules of the foreign keys -------------- *)
\* mutant: on_delete=DO_NOTHING
CascadeCategory_none(cs) == {}

\* Transaction.category, on_delete=CASCADE: the transactions deleted with
\* the categories cs
CascadeCategory(cs) == {t \in DOMAIN transactions : transactions[t].category \in cs}

\* Transaction.wallet, on_delete=CASCADE: the transactions deleted with the
\* wallets ws
CascadeWallet(ws) == {t \in DOMAIN transactions : transactions[t].wallet \in ws}

\* Transaction.user, Category.user, Wallet.user, on_delete=CASCADE
CascadeUserTransactions(u) == {t \in DOMAIN transactions : transactions[t].user = u}
CascadeUserCategories(u) == {c \in DOMAIN categories : categories[c].user = u}
CascadeUserWallets(u) == {w \in DOMAIN wallets : wallets[w].user = u}

\* mutant: on_delete=DO_NOTHING, no wallet forbids the delete
RestrictCurrency_none(c) == {}

\* Wallet.currency, on_delete=RESTRICT: the wallets that forbid deleting c
RestrictCurrency(c) == {w \in DOMAIN wallets : wallets[w].currency = c}

\* Wallet.currency, unique=True: no stored wallet other than w has currency c
CurrencyUnique(c, w) ==
    \A x \in DOMAIN wallets : x # w => wallets[x].currency # c

(* --------------------- rows written through the ORM ------------------- *)
\* Wallet(...).save() of a new row; current_balance takes its default
Wallet_create(u, c, initial_balance) ==
    /\ nextWalletId <= MaxWallets /\ RowsInserted < MaxRows
    /\ u \in users
    /\ c \in DOMAIN currencies
    /\ CurrencyUnique(c, nextWalletId)
    /\ wallets' = Put(wallets, nextWalletId,
                      [currency |-> c, user |-> u, current_balance |-> 0,
                       initial_balance |-> initial_balance])
    /\ nextWalletId' = nextWalletId + 1
    /\ response' = NoResponse
    /\ UNCHANGED <<users, currencies, categories, transactions,
                   nextUserId, nextCategoryId, nextTransactionId,
                   passwords, tokens>>
    /\ Observe

\* wallet.initial_balance = v; wallet.save()
Wallet_save(w, initial_balance) ==
    /\ w \in DOMAIN wallets
    /\ wallets' = Put(wallets, w, [wallets[w] EXCEPT !.initial_balance = initial_balance])
    /\ response' = NoResponse
    /\ UNCHANGED <<users, currencies, categories, transactions,
                   nextUserId, nextWalletId, nextCategoryId, nextTransactionId,
                   passwords, tokens>>
    /\ Observe

\* wallet.delete()
Wallet_delete(w) ==
    /\ w \in DOMAIN wallets
    /\ wallets' = Remove(wallets, {w})
    /\ transactions' = Remove(transactions, CascadeWallet({w}))
    /\ response' = NoResponse
    /\ UNCHANGED <<users, currencies, categories,
                   nextUserId, nextWalletId, nextCategoryId, nextTransactionId,
                   passwords, tokens>>
    /\ Observe

\* Transaction(...).save() of a new row: the three foreign keys must resolve
Transaction_create(u, c, w, amount) ==
    /\ nextTransactionId <= MaxTransactions /\ RowsInserted < MaxRows
    /\ u \in users
    /\ c \in DOMAIN categories
    /\ w \in DOMAIN wallets
    /\ transactions' = Put(transactions, nextTransactionId,
                           [user |-> u, category |-> c, wallet |-> w, amount |-> amount])
    /\ nextTransactionId' = nextTransactionId + 1
    /\ response' = NoResponse
    /\ UNCHANGED <<users, currencies, wallets, categories,
                   nextUserId, nextWalletId, nextCategoryId,
                   passwords, tokens>>
    /\ Observe

\* currency.delete(): RestrictedError while a wallet references it
Currency_delete(c) ==
    /\ c \in DOMAIN currencies
    /\ IF RestrictCurrency(c) # {}
       THEN /\ response' = RestrictedError(c)
            /\ UNCHANGED currencies
       ELSE /\ currencies' = Remove(currencies, {c})
            /\ response' = NoResponse
    /\ UNCHANGED <<users, wallets, categories, transactions,
                   nextUserId, nextWalletId, nextCategoryId, nextTransactionId,
                   passwords, tokens>>
    /\ Observe

(* ------------------------ balance reads (serializers) ----------------- *)
\* WalletSerializer(wallet).data: total_balance and wallet_balance_in_usd
\* are the results of the two methods of the wallet
WalletSerializer_data(w) ==
    Resp(200, "wallet", w, get_total_balance(w), get_wallet_balance_in_usd(w))

\* mutant: the computed balance is cached in the current_balance column
WalletSerializer_read_caching(w) ==
    /\ w \in DOMAIN wallets
    /\ response' = WalletSerializer_data(w)
    /\ wallets' = Put(wallets, w,
                      [wallets[w] EXCEPT !.current_balance = get_total_balance(w)])
    /\ UNCHANGED <<users, currencies, categories, transactions,
                   nextUserId, nextWalletId, nextCategoryId, nextTransactionId,
                   passwords, tokens>>
    /\ Observe

\* serializing a stored wallet
WalletSerializer_read(w) ==
    /\ w \in DOMAIN wallets
    /\ response' = WalletSerializer_data(w)
    /\ UNCHANGED <<users, currencies, wallets, categories, transactions,
                   nextUserId, nextWalletId, nextCategoryId, nextTransactionId,
                   passwords, tokens>>
    /\ Observe

\* UserSerializer(user).data: total_wallets_balance_in_usd is the result of
\* get_total_wallets_balance_in_usd
UserSerializer_data(u) ==
    Resp(200, "user", u, 0, get_total_wallets_balance_in_usd(u))

(* --------------------------- request handlers ------------------------- *)
METHODS == {"GET", "PUT", "DELETE"}

\* the password key is missing from the request; a user created without
\* one has no usable password
NoPassword == 0
\* the passwords a client may send
Passwords == 1..MaxPasswords
PasswordInputs == {NoPassword} \cup Passwords

\* Token.user, on_delete=CASCADE: the tokens left when user u is deleted
CascadeUserToken(u) == tokens \ {u}

\* what a client may send as a category type
TypeInputs == TYPE_CHOICES \cup {"OTHER"}

\* django.contrib.auth.authenticate: the user whose username and password
\* these are, or None (<<>>); the username of user u is modelled as u
authenticate(username, password) ==
    IF /\ username \in users
       /\ password # NoPassword
       /\ passwords[username] = password
    THEN <<username>> ELSE <<>>

\* login_user: request.data holds `username` and `password`
login_user(limited, username, password) ==
    /\ IF limited
       THEN /\ response' = Status(429)
            /\ UNCHANGED tokens
       ELSE IF username \notin users
       THEN /\ response' = NotFound("user", username)
            /\ UNCHANGED tokens
       ELSE IF authenticate(username, password) # <<>>
       THEN /\ tokens' = tokens \cup {authenticate(username, password)[1]}
            /\ response' = Resp(200, "token", authenticate(username, password)[1], 0, 0)
       ELSE /\ response' = Status(400)
            /\ UNCHANGED tokens
    /\ UNCHANGED <<users, currencies, wallets, categories, transactions,
                   nextUserId, nextWalletId, nextCategoryId, nextTransactionId,
                   passwords>>
    /\ Observe

\* create_user: `valid` is the outcome of UserSerializer.is_valid();
\* UserSerializer.create calls set_password only when a password was sent
create_user(limited, valid, password) ==
    /\ IF limited
       THEN /\ response' = Status(429)
            /\ UNCHANGED <<users, nextUserId, passwords>>
       ELSE IF valid
       THEN /\ nextUserId <= MaxUsers /\ RowsInserted < MaxRows
            /\ users' = users \cup {nextUserId}
            /\ passwords' = Put(passwords, nextUserId, password)
            /\ nextUserId' = nextUserId + 1
            /\ response' = Resp(201, "user", nextUserId, 0, 0)
       ELSE /\ response' = Status(400)
            /\ UNCHANGED <<users, nextUserId, passwords>>
    /\ UNCHANGED <<currencies, wallets, categories, transactions,
                   nextWalletId, nextCategoryId, nextTransactionId, tokens>>
    /\ Observe

\* get_user, request.user = u
get_user(u) ==
    /\ u \in users
    /\ response' = UserSerializer_data(u)
    /\ UNCHANGED <<users, currencies, wallets, categories, transactions,
                   nextUserId, nextWalletId, nextCategoryId, nextTransactionId,
                   passwords, tokens>>
    /\ Observe

\* user_detail, request.user = u; the profile fields a PUT writes are not
\* part of the state, `valid` is the outcome of is_valid() and of
\* validate_password, `password` the one sent (NoPassword when the key is
\* missing)
user_detail(u, method, valid, password) ==
    /\ u \in users
    /\ method \in METHODS
    /\ IF method = "GET"
       THEN /\ response' = UserSerializer_data(u)
            /\ UNCHANGED <<users, wallets, categories, transactions,
                           passwords, tokens>>
       ELSE IF method = "PUT"
       THEN /\ response' = IF valid THEN UserSerializer_data(u)
                                    ELSE Status(400)
            /\ passwords' = IF valid /\ password # NoPassword
                            THEN Put(passwords, u, password)
                            ELSE passwords
            /\ UNCHANGED <<users, wallets, categories, transactions, tokens>>
       ELSE /\ users' = users \ {u}
            /\ passwords' = Remove(passwords, {u})
            /\ tokens' = CascadeUserToken(u)
            /\ categories' = Remove(categories, CascadeUserCategories(u))
            /\ wallets' = Remove(wallets, CascadeUserWallets(u))
            /\ transactions' =
                 Remove(transactions,
                        CascadeUserTransactions(u)
                          \cup CascadeCategory(CascadeUserCategories(u))
                          \cup CascadeWallet(CascadeUserWallets(u)))
            /\ response' = Resp(204, "user", u, 0, 0)
    /\ UNCHANGED <<currencies, nextUserId, nextWalletId, nextCategoryId,
                   nextTransactionId>>
    /\ Observe

\* create_category, request.user = u; the serializer accepts a type of
\* TYPE_CHOICES only
create_category(u, limited, type) ==
    /\ u \in users
    /\ IF limited
       THEN /\ response' = Status(429)
            /\ UNCHANGED <<categories, nextCategoryId>>
       ELSE IF type \in TYPE_CHOICES
       THEN /\ nextCategoryId <= MaxCategories /\ RowsInserted < MaxRows
            /\ categories' = Put(categories, nextCategoryId, [user |-> u, type |-> type])
            /\ nextCategoryId' = nextCategoryId + 1
            /\ response' = Resp(201, "category", nextCategoryId, 0, 0)
       ELSE /\ response' = Status(400)
            /\ UNCHANGED <<categories, nextCategoryId>>
    /\ UNCHANGED <<users, currencies, wallets, transactions,
                   nextUserId, nextWalletId, nextTransactionId,
                   passwords, tokens>>
    /\ Observe

\* category_detail, request.user = u
category_detail(u, pk, method, type) ==
    /\ u \in users
    /\ method \in METHODS
    /\ IF ~(pk \in DOMAIN categories /\ categories[pk].user = u)
       THEN /\ response' = NotFound("category", pk)
            /\ UNCHANGED <<categories, transactions>>
       ELSE IF method = "GET"
       THEN /\ response' = Resp(200, "category", pk, 0, 0)
            /\ UNCHANGED <<categories, transactions>>
       ELSE IF method = "PUT"
       THEN IF type \in TYPE_CHOICES
            THEN /\ categories' = Put(categories, pk, [categories[pk] EXCEPT !.type = type])
                 /\ response' = Resp(200, "category", pk, 0, 0)
                 /\ UNCHANGED transactions
            ELSE /\ response' = Status(400)
                 /\ UNCHANGED <<categories, transactions>>
       ELSE /\ categories' = Remove(categories, {pk})
            /\ transactions' = Remove(transactions, CascadeCategory({pk}))
            /\ response' = Resp(204, "category", pk, 0, 0)
    /\ UNCHANGED <<users, currencies, wallets,
                   nextUserId, nextWalletId, nextCategoryId, nextTransactionId,
                   passwords, tokens>>
    /\ Observe

\* TransactionSerializer.is_valid(): `fields_valid` is the outcome for title,
\* description, amount and date; category_id must name a stored category
TransactionSerializer_is_valid(category_id, fields_valid) ==
    fields_valid /\ category_id \in DOMAIN categories

\* an error response of create_transaction (pk = 0) or of
\* transaction_detail(pk): the status, and a body with an error message
TransactionError(status, pk) == Resp(status, "transaction", pk, 0, 0)

\* mutant: the lookup without user=request.user
OwnCategory_any_user(u, category_id) == category_id \in DOMAIN categories

\* Category.objects.get(pk=category_id, user=request.user) finds a row
OwnCategory(u, category_id) ==
    category_id \in DOMAIN categories /\ categories[category_id].user = u

\* create_transaction, request.user = u; category_id = 0 is a request without
\* one.  The serializer has no wallet field and the view passes none to
\* save(), so the INSERT has wallet_id NULL in a NOT NULL column: the save
\* raises IntegrityError and stores nothing.
create_transaction(u, limited, category_id, amount, fields_valid) ==
    /\ u \in users
    /\ response' =
         IF limited THEN TransactionError(429, 0)
         ELSE IF category_id = 0 THEN TransactionError(400, 0)
         ELSE IF ~OwnCategory(u, category_id) THEN TransactionError(400, 0)
         ELSE IF TransactionSerializer_is_valid(category_id, fields_valid)
              THEN TransactionError(500, 0)
         ELSE TransactionError(400, 0)
    /\ UNCHANGED <<users, currencies, wallets, categories, transactions,
                   nextUserId, nextWalletId, nextCategoryId, nextTransactionId,
                   passwords, tokens>>
    /\ Observe

\* mutant: the lookup without user=request.user
OwnTransaction_any_user(u, pk) == pk \in DOMAIN transactions

\* get_object_or_404(Transaction, pk=pk, user=request.user) finds a row
OwnTransaction(u, pk) == pk \in DOMAIN transactions /\ transactions[pk].user = u

\* transaction_detail, request.user = u
transaction_detail(u, pk, method, category_id, amount, fields_valid) ==
    /\ u \in users
    /\ method \in METHODS
    /\ IF ~OwnTransaction(u, pk)
       THEN /\ response' = NotFound("transaction", pk)
            /\ UNCHANGED transactions
       ELSE IF method = "GET"
       THEN /\ response' = Resp(200, "transaction", pk, transactions[pk].amount, 0)
            /\ UNCHANGED transactions
       ELSE IF method = "PUT"
       THEN IF TransactionSerializer_is_valid(category_id, fields_valid)
            THEN /\ transactions' =
                      Put(transactions, pk,
                          [transactions[pk] EXCEPT !.category = category_id,
                                                   !.amount = amount])
                 /\ response' = Resp(200, "transaction", pk, amount, 0)
            ELSE /\ response' = TransactionError(400, pk)
                 /\ UNCHANGED transactions
       ELSE /\ transactions' = Remove(transactions, {pk})
            /\ response' = Resp(204, "transaction", pk, 0, 0)
    /\ UNCHANGED <<users, currencies, wallets, categories,
                   nextUserId, nextWalletId, nextCategoryId, nextTransactionId,
                   passwords, tokens>>
    /\ Observe

(* ------------- Wallet.get_total_balance, statement by statement -------- *)
\* the call begins on the instance of wallet w just loaded
get_total_balance_call(w) ==
    /\ reader.pc = "idle"
    /\ w \in DOMAIN wallets
    /\ reader' = [pc |-> "income", self |-> w,
                  initial_balance |-> wallets[w].initial_balance,
                  income |-> 0, result |-> 0]
    /\ moments' = {get_total_balance(w)}
    /\ UNCHANGED <<users, currencies, wallets, categories, transactions,
                   nextUserId, nextWalletId, nextCategoryId, nextTransactionId,
                   passwords, tokens, response>>

\* models.py:77, the first query
get_total_balance_income ==
    /\ reader.pc = "income"
    /\ reader' = [reader EXCEPT !.pc = "expenses", !.income = income(reader.self)]
    /\ UNCHANGED <<users, currencies, wallets, categories, transactions,
                   nextUserId, nextWalletId, nextCategoryId, nextTransactionId,
                   passwords, tokens, response, moments>>

\* models.py:79 and 81, the second query and the return
get_total_balance_return ==
    /\ reader.pc = "expenses"
    /\ reader' = [reader EXCEPT
                    !.pc = "done",
                    !.result = reader.initial_balance
                                 + reader.income * AmountScale
                                 - expenses(reader.self) * AmountScale]
    /\ UNCHANGED <<users, currencies, wallets, categories, transactions,
                   nextUserId, nextWalletId, nextCategoryId, nextTransactionId,
                   passwords, tokens, response, moments>>

(* ------------------------------- Next --------------------------------- *)
UserIds == 1..MaxUsers
WalletIds == 1..MaxWallets
CategoryIds == 1..MaxCategories
TransactionIds == 1..MaxTransactions
CurrencyIds == 1..NumCurrencies

\* the inputs a handler reads only on a PUT, or only when not rate limited,
\* are drawn only there
OnPut(m, S, default) == IF m = "PUT" THEN S ELSE {default}
Unless(limited, S, default) == IF limited THEN {default} ELSE S
\* the body of a transaction request is read only once the lookup of the row
\* it names (the transaction, or the category of a new one) has found it
When(found, S, default) == IF found THEN S ELSE {default}

\* the bodies of a transaction request: the category_id sent (0 when the
\* key is missing), the amount, and whether the other fields validate; the
\* amount of a body that does not validate is never read
TransactionBodies ==
    {<<c, a, TRUE>> : c \in 0..MaxCategories, a \in AmountInputs}
      \cup {<<c, 1, FALSE>> : c \in 0..MaxCategories}

Next ==
    \/ \E limited \in BOOLEAN : \E valid \in Unless(limited, BOOLEAN, TRUE) :
          create_user(limited, valid, NoPassword)
    \/ \E u \in UserIds : get_user(u)
    \/ \E u \in UserIds, m \in METHODS : \E valid \in OnPut(m, BOOLEAN, TRUE) :
          user_detail(u, m, valid, NoPassword)
    \/ \E u \in UserIds, limited \in BOOLEAN :
          \E ty \in Unless(limited, TypeInputs, "OTHER") :
             create_category(u, limited, ty)
    \/ \E u \in UserIds, pk \in CategoryIds, m \in METHODS :
          \E ty \in OnPut(m, TypeInputs, "OTHER") :
             category_detail(u, pk, m, ty)
    \/ \E u \in UserIds, limited \in BOOLEAN :
          \E c \in Unless(limited, 0..MaxCategories, 0) :
             \E b \in When(OwnCategory(u, c),
                           {x \in TransactionBodies : x[1] = c}, <<c, 1, TRUE>>) :
                create_transaction(u, limited, b[1], b[2], b[3])
    \/ \E u \in UserIds, pk \in TransactionIds, m \in METHODS :
          \E b \in OnPut(m, When(OwnTransaction(u, pk), TransactionBodies,
                                 <<0, 1, TRUE>>),
                          <<0, 1, TRUE>>) :
             transaction_detail(u, pk, m, b[1], b[2], b[3])
    \/ \E u \in UserIds, c \in CurrencyIds, b \in InitialBalances :
          Wallet_create(u, c, b)
    \/ \E w \in WalletIds, b \in InitialBalances : Wallet_save(w, b)
    \/ \E w \in WalletIds : Wallet_delete(w)
    \/ \E u \in UserIds, c \in CategoryIds, w \in WalletIds, a \in Amounts :
          Transaction_create(u, c, w, a)
    \/ \E c \in CurrencyIds : Currency_delete(c)
    \/ \E w \in WalletIds : WalletSerializer_read(w)

Spec == Init /\ [][Next]_vars

\* the accounts alone: registration, the profile and the login, with the
\* passwords a client may choose
NextAuth ==
    \/ \E limited \in BOOLEAN : \E valid \in Unless(limited, BOOLEAN, TRUE) :
          \E password \in Unless(limited \/ ~valid, PasswordInputs, NoPassword) :
             create_user(limited, valid, password)
    \/ \E u \in UserIds : get_user(u)
    \/ \E u \in UserIds, m \in METHODS : \E valid \in OnPut(m, BOOLEAN, TRUE) :
          \E password \in OnPut(m, PasswordInputs, NoPassword) :
             user_detail(u, m, valid, password)
    \/ \E limited \in BOOLEAN :
          \E username \in Unless(limited, UserIds, 1),
             password \in Unless(limited, PasswordInputs, NoPassword) :
             login_user(limited, username, password)

SpecAuth == Init /\ [][NextAuth]_vars

\* one call of get_total_balance beside the requests and ORM writes that
\* build and change the ledger; each query of the call and each request is
\* one step (the database runs in autocommit)
NextConcurrent ==
    \/ create_user(FALSE, TRUE, NoPassword)
    \/ \E u \in UserIds, ty \in TYPE_CHOICES : create_category(u, FALSE, ty)
    \/ \E u \in UserIds, c \in CurrencyIds, b \in InitialBalances :
          Wallet_create(u, c, b)
    \/ \E u \in UserIds, c \in CategoryIds, w \in WalletIds, a \in Amounts :
          Transaction_create(u, c, w, a)
    \/ \E u \in UserIds, pk \in TransactionIds, m \in {"PUT", "DELETE"} :
          \E b \in OnPut(m, {x \in TransactionBodies : x[3] /\ x[2] \in Amounts},
                          <<0, 1, TRUE>>) :
             transaction_detail(u, pk, m, b[1], b[2], b[3])
    \/ \E w \in WalletIds : get_total_balance_call(w)
    \/ get_total_balance_income
    \/ get_total_balance_return

SpecConcurrent == Init /\ [][NextConcurrent]_vars

(* ====================================================================== *)
(*                       the balance of the specification                  *)
(* ====================================================================== *)
\* the transactions whose wallet is w
Ledger(w) == {t \in DOMAIN transactions : transactions[t].wallet = w}

\* +amount for an INCOME category, -amount for an EXPENSE category
Contribution(t) ==
    LET ty == categories[transactions[t].category].type
    IN  IF ty = "INCOME" THEN transactions[t].amount
        ELSE IF ty = "EXPENSE" THEN 0 - transactions[t].amount
        ELSE 0

RECURSIVE NetAmount(_)
NetAmount(S) ==
    IF S = {} THEN 0
    ELSE LET t == CHOOSE x \in S : TRUE
         IN  Contribution(t) + NetAmount(S \ {t})

\* initial_balance + sum(INCOME) - sum(EXPENSE), in 1e-8 units
LedgerBalance(w) == wallets[w].initial_balance + NetAmount(Ledger(w)) * AmountScale

\* the rate of the currency of wallet w
RateOf(w) == currencies[wallets[w].currency].value_in_usd

\* the wallets of user u
OwnedBy(u) == {w \in DOMAIN wallets : wallets[w].user = u}

RECURSIVE LedgerUsd(_)
\* the sum of balance times rate over the wallets of W
LedgerUsd(W) ==
    IF W = {} THEN 0
    ELSE LET w == CHOOSE x \in W : TRUE
         IN  LedgerBalance(w) * RateOf(w) + LedgerUsd(W \ {w})

\* this step inserts transaction t and writes no other row
Inserts(t) ==
    /\ t \notin DOMAIN transactions
    /\ t \in DOMAIN transactions'
    /\ transactions' = Put(transactions, t, transactions'[t])
    /\ UNCHANGED <<users, currencies, wallets, categories>>

\* the response serializes a stored wallet / a stored user
IsWalletRead == response.kind = "wallet" /\ response.status = 200
IsUserRead == response.kind = "user" /\ response.status = 200

(* ====================================================================== *)
(*                                 claims                                  *)
(* ====================================================================== *)

\* C1: for every wallet, get_total_balance() is initial_balance plus the
\* amounts of its INCOME transactions minus the amounts of its EXPENSE
\* transactions.
C1_TotalBalanceIsIncomeMinusExpense ==
    \A w \in DOMAIN wallets : get_total_balance(w) = LedgerBalance(w)

\* C2: a step that inserts one transaction of amount a with an INCOME
\* category into wallet w makes get_total_balance() of w exactly a larger.
C2_IncomeRaisesBalance ==
    [][\A t \in TransactionIds, w \in WalletIds :
          (/\ Inserts(t)
           /\ transactions'[t].wallet = w
           /\ categories[transactions'[t].category].type = "INCOME")
          => get_total_balance(w)'
               = get_total_balance(w) + transactions'[t].amount * AmountScale]_vars

\* C3: a step that inserts one transaction of amount a with an EXPENSE
\* category into wallet w makes get_total_balance() of w exactly a smaller.
C3_ExpenseLowersBalance ==
    [][\A t \in TransactionIds, w \in WalletIds :
          (/\ Inserts(t)
           /\ transactions'[t].wallet = w
           /\ categories[transactions'[t].category].type = "EXPENSE")
          => get_total_balance(w)'
               = get_total_balance(w) - transactions'[t].amount * AmountScale]_vars

\* C4: the wallet_balance_in_usd a wallet is serialized with is its
\* get_total_balance() times the value_in_usd of its currency, on the rows
\* as they are stored.
C4_BalanceInUsdIsBalanceTimesRate ==
    IsWalletRead =>
       /\ response.value = get_total_balance(response.id)
       /\ response.value_in_usd = get_total_balance(response.id) * RateOf(response.id)

\* C4 witness: a wallet holding a transaction was serialized with a balance
\* and a rate that make the product differ from both factors.
C4_Witness ==
    /\ IsWalletRead
    /\ Ledger(response.id) # {}
    /\ response.value # 0
    /\ RateOf(response.id) > 1
    /\ response.value_in_usd # response.value

\* C5: the total a user is serialized with is the sum, over exactly the
\* wallets that user owns, of the wallet's balance (initial_balance plus
\* income minus expenses) times the rate of its currency.
C5_AccountTotalIsSumOverOwnWallets ==
    IsUserRead => response.value_in_usd = LedgerUsd(OwnedBy(response.id))

RECURSIVE SumUsd(_)
\* the sum of get_wallet_balance_in_usd() over the wallets of W
SumUsd(W) ==
    IF W = {} THEN 0
    ELSE LET w == CHOOSE x \in W : TRUE
         IN  get_wallet_balance_in_usd(w) + SumUsd(W \ {w})

\* The aggregation alone, relative to the balance the code computes: the
\* total a user is serialized with is the sum of get_wallet_balance_in_usd()
\* over exactly the wallets that user owns.
AccountTotalFoldsOwnWallets ==
    IsUserRead => response.value_in_usd = SumUsd(OwnedBy(response.id))

\* C6: a wallet that no transaction references is serialized with
\* total_balance = initial_balance and wallet_balance_in_usd =
\* initial_balance times the rate of its currency.
C6_NoTransactionsGivesInitialBalance ==
    (IsWalletRead /\ Ledger(response.id) = {}) =>
       /\ response.value = wallets[response.id].initial_balance
       /\ response.value_in_usd
            = wallets[response.id].initial_balance * RateOf(response.id)

\* C6 witness: a wallet without transactions and with a non-zero
\* initial_balance was serialized while another wallet holds a transaction.
C6_Witness ==
    /\ IsWalletRead
    /\ Ledger(response.id) = {}
    /\ wallets[response.id].initial_balance # 0
    /\ transactions # <<>>

\* C7: a user who owns no wallet is serialized with a total of 0, whatever
\* the other users own.
C7_NoWalletsGivesZero ==
    (IsUserRead /\ OwnedBy(response.id) = {}) => response.value_in_usd = 0

\* C7 witness: a user without wallets was serialized while another user owns
\* a wallet whose balance in USD is not 0.
C7_Witness ==
    /\ IsUserRead
    /\ OwnedBy(response.id) = {}
    /\ \E w \in DOMAIN wallets :
          /\ wallets[w].user # response.id
          /\ wallets[w].initial_balance # 0

\* the step writes wallets or transactions, but the row of wallet w and
\* every transaction that references w, before or after the step, are left as
\* they are, and no category is written
LeavesAlone(w) ==
    /\ <<wallets, transactions>>' # <<wallets, transactions>>
    /\ w \in DOMAIN wallets
    /\ w \in DOMAIN wallets'
    /\ wallets'[w] = wallets[w]
    /\ categories' = categories
    /\ \A t \in DOMAIN transactions :
          transactions[t].wallet = w =>
             t \in DOMAIN transactions' /\ transactions'[t] = transactions[t]
    /\ \A t \in DOMAIN transactions' :
          transactions'[t].wallet = w =>
             t \in DOMAIN transactions /\ transactions[t] = transactions'[t]

\* C8: a step that creates, updates or deletes transactions of other wallets,
\* or writes another wallet's row, leaves get_total_balance() of wallet w
\* unchanged.
C8_WalletsAreIndependent ==
    [][\A w \in WalletIds :
          LeavesAlone(w) => get_total_balance(w)' = get_total_balance(w)]_vars

\* C8 witness: wallets 1 and 2 are stored, transaction 1 references wallet 1
\* and the later transaction 2, of an INCOME category, references wallet 2.
C8_Witness ==
    /\ DOMAIN wallets = {1, 2}
    /\ DOMAIN transactions = {1, 2}
    /\ transactions[1].wallet = 1
    /\ transactions[2].wallet = 2
    /\ categories[transactions[2].category].type = "INCOME"

\* a step of a handler that only serializes balances: the row it serializes
\* is the one its response names
BalanceRead ==
    \/ response'.kind = "wallet" /\ WalletSerializer_read(response'.id)
    \/ response'.kind = "user" /\ get_user(response'.id)
    \/ response'.kind = "user" /\ user_detail(response'.id, "GET", TRUE, NoPassword)

\* C9: a balance read writes no row of any table, and a read that directly
\* follows a read of the same row returns the same figures.
C9_BalanceReadsArePure ==
    [][BalanceRead =>
          /\ store' = store
          /\ (/\ response.status = 200
              /\ response.kind = response'.kind
              /\ response.id = response'.id)
             => response' = response]_vars

\* C9 witness: a user owning a wallet with transactions and a non-zero total
\* was serialized.
C9_Witness ==
    /\ IsUserRead
    /\ response.value_in_usd # 0
    /\ \E w \in OwnedBy(response.id) : Ledger(w) # {}

\* every stored transaction references a stored wallet and a stored category
C10_Integrity ==
    \A t \in DOMAIN transactions :
       /\ transactions[t].wallet \in DOMAIN wallets
       /\ transactions[t].category \in DOMAIN categories

\* a step that deletes just wallet w (no user, no category) removes exactly
\* the transactions that reference w; a step that deletes just category c
\* (no user, no wallet) removes exactly the transactions that reference c
C10_CascadeIsExact ==
    /\ \A w \in WalletIds :
          (/\ w \in DOMAIN wallets
           /\ wallets' = Remove(wallets, {w})
           /\ UNCHANGED <<users, categories>>)
          => transactions'
               = Remove(transactions,
                        {t \in DOMAIN transactions : transactions[t].wallet = w})
    /\ \A c \in CategoryIds :
          (/\ c \in DOMAIN categories
           /\ categories' = Remove(categories, {c})
           /\ UNCHANGED <<users, wallets>>)
          => transactions'
               = Remove(transactions,
                        {t \in DOMAIN transactions : transactions[t].category = c})

\* C10: after any sequence of operations every stored transaction references
\* a wallet and a category that exist; deleting a wallet or a category
\* removes the transactions that reference it and no other.
C10_DeletesCascadeToTransactions ==
    []C10_Integrity /\ [][C10_CascadeIsExact]_vars

\* C10 witness: category 1 has just been deleted through category_detail;
\* of the two transactions inserted, transaction 2, of category 2, is stored.
C10_Witness ==
    /\ response = Resp(204, "category", 1, 0, 0)
    /\ DOMAIN categories = {2}
    /\ nextTransactionId = 3
    /\ DOMAIN transactions = {2}
    /\ transactions[2].category = 2

\* every stored wallet references a stored currency
C11_Integrity ==
    \A w \in DOMAIN wallets : wallets[w].currency \in DOMAIN currencies

\* the wallets whose currency is c
WalletsIn(c) == {w \in DOMAIN wallets : wallets[w].currency = c}

\* the delete of a currency that a wallet references raises RestrictedError
\* and writes no row (a delete either removes the currency or raises)
C11_ReferencedDeleteRejected ==
    (currencies' # currencies \/ response'.kind = "currency")
    => \A c \in CurrencyIds :
          (/\ WalletsIn(c) # {}
           /\ Currency_delete(c))
          => /\ response' = RestrictedError(c)
             /\ store' = store

\* C11: every wallet references a currency that exists; an attempt to delete
\* a currency that some wallet references is rejected, and the currency and
\* the wallets are left as they were.
C11_CurrencyDeleteIsRestricted ==
    []C11_Integrity /\ [][C11_ReferencedDeleteRejected]_vars

\* C11 witness: the delete of a currency with a wallet in it has just been
\* rejected; the currency and the wallet are stored.
C11_Witness ==
    \E c \in DOMAIN currencies :
       /\ response = RestrictedError(c)
       /\ WalletsIn(c) # {}

\* C12: uniqueness of wallet per currency is not enforced: while a wallet in
\* currency c is stored, the creation of another wallet in c is accepted for
\* every user, the owner of the stored wallet or another one (as long as a
\* primary key is left within the bounds).
C12_SecondWalletInCurrencyAccepted ==
    \A u \in users, c \in DOMAIN currencies :
       (/\ WalletsIn(c) # {}
        /\ nextWalletId <= MaxWallets
        /\ RowsInserted < MaxRows)
       => ENABLED Wallet_create(u, c, 0)

\* C13: every stored transaction has a positive amount: a request whose
\* amount is negative or zero stores nothing.  (Rows written through the ORM
\* have positive amounts, so only a request can store another amount.)
C13_StoredAmountsArePositive ==
    \A t \in DOMAIN transactions : transactions[t].amount > 0

\* transaction_detail answers the request of u on pk otherwise than with a
\* 404 that has no field of the transaction in its body, or writes a row
AnsweredOtherThan404(u, pk, method, b) ==
    /\ transaction_detail(u, pk, method, b[1], b[2], b[3])
    /\ ~(response' = NotFound("transaction", pk) /\ store' = store)

\* C14: a GET, PUT or DELETE on transaction_detail(pk) by a user who is not
\* the user of the stored transaction pk returns 404 with no field of the
\* transaction in the body, and writes no row.
C14_OnlyOwnerReachesTransaction ==
    \A pk \in DOMAIN transactions :
       \A u \in users \ {transactions[pk].user} :
          \A method \in METHODS, b \in TransactionBodies :
             /\ ENABLED transaction_detail(u, pk, method, b[1], b[2], b[3])
             /\ ~ENABLED AnsweredOtherThan404(u, pk, method, b)

\* C14 witness: a request on the stored transaction pk has just been answered
\* with 404; the lookup finds a stored row for its owner, so the request came
\* from another user.
C14_Witness ==
    \E pk \in DOMAIN transactions :
       /\ response = NotFound("transaction", pk)
       /\ users \ {transactions[pk].user} # {}

\* the category_id of a request of u is missing (0), names no stored
\* category, or names a category of another user
BadCategoryId(u, category_id) ==
    \/ category_id = 0
    \/ category_id \notin DOMAIN categories
    \/ categories[category_id].user # u

\* create_transaction answers the request otherwise than with a 400, or
\* writes a row
AnsweredOtherThan400(u, limited, b) ==
    /\ create_transaction(u, limited, b[1], b[2], b[3])
    /\ ~(response' = TransactionError(400, 0) /\ store' = store)

Written == {t \in DOMAIN transactions' :
              t \notin DOMAIN transactions \/ transactions'[t] # transactions[t]}

\* C17: every transaction that a create_transaction or transaction_detail
\* request stores has a category owned by the user of the transaction,
\* on create and on update.  (Only these requests answer about a
\* transaction; rows written through the ORM are not constrained.)
C17_RequestsStoreOwnCategory ==
    [][response'.kind = "transaction"
       => \A t \in Written :
             categories'[transactions'[t].category].user = transactions'[t].user]_vars

\* a valid create_transaction request of u with category c of u stores one
\* new transaction of u, with category c and a stored wallet, and the
\* answer is 201
Created(u, c, b) ==
    /\ create_transaction(u, FALSE, c, b[2], TRUE)
    /\ response'.status = 201
    /\ \E t \in DOMAIN transactions' \ DOMAIN transactions :
          /\ DOMAIN transactions' = DOMAIN transactions \cup {t}
          /\ \A x \in DOMAIN transactions : transactions'[x] = transactions[x]
          /\ transactions'[t].user = u
          /\ transactions'[t].category = c
          /\ transactions'[t].wallet \in DOMAIN wallets'

\* C18: a create_transaction request that is not rate limited, has valid
\* fields and names a category of the requesting user stores exactly one new
\* transaction of that user, with that category and tied to a wallet, and
\* returns 201.
C18_ValidCreateStoresOne ==
    \A u \in users, b \in TransactionBodies :
       \A c \in {x \in DOMAIN categories : categories[x].user = u} :
          (b[1] = c /\ b[2] > 0 /\ b[3])
          => ENABLED Created(u, c, b)

\* the credentials are invalid: the username is unknown, or the password is
\* not the one of the user with that username
InvalidCredentials(username, password) ==
    \/ username \notin users
    \/ password = NoPassword
    \/ passwords[username] # password

\* login_user answers the request otherwise than with a 400, or issues a
\* token
AnsweredOtherThanInvalid(username, password) ==
    /\ login_user(FALSE, username, password)
    /\ ~(response' = Status(400) /\ tokens' = tokens)

\* C16: login_user answers a request with invalid credentials (unknown
\* username, or known username with a wrong password) with 400 and an error
\* body, and issues and returns no token.
C16_InvalidCredentialsGive400 ==
    \A username \in UserIds, password \in PasswordInputs :
       InvalidCredentials(username, password)
       => /\ ENABLED login_user(FALSE, username, password)
          /\ ~ENABLED AnsweredOtherThanInvalid(username, password)

\* C19: a get_total_balance() call that interleaves with transaction writes
\* returns the value the method has in one single state of the store between
\* the start and the end of the call.
C19_BalanceReadIsAtomic ==
    reader.pc = "done" => reader.result \in moments

====
